---------------------------- MODULE Spec2Model ----------------------------
(***************************************************************************)
(* Model of the expression-restricted template renderer of the Telegram    *)
(* bot: widgets/i18n.py, classes I18NFormat and I18NFormatGetter.          *)
(*                                                                         *)
(* Python values are records [t |-> type name, v |-> payload]; a Python    *)
(* str is a sequence of one-character strings, so that templates, keys and *)
(* translations can hold brace characters and be scanned character by      *)
(* character.  Syntax trees are records [k |-> node class, ...] with the   *)
(* field names of Python's ast module.                                     *)
(***************************************************************************)
EXTENDS Integers, Sequences, FiniteSets, TLC

VARIABLES
    template,   \* I18NFormatGetter.template, set by __init__
    pc,         \* position of the running _render_text call
    data,       \* the `data` argument of the running call
    i18n,       \* dialog_manager.middleware_data.get("i18n") of the call
    pos,        \* re.sub: index after the last consumed character
    out,        \* re.sub: the pieces of the result joined so far
    calls,      \* the i18n.get calls made so far: <<key, params>>
    trace,      \* what replace() did, in order, for every match
    result,     \* returned string or raised exception of the call
    evNode,     \* argument of a direct safe_eval_expr call: the parsed tree
    evData,     \* argument of a direct safe_eval_expr call: the context
    evRes,      \* outcome of the direct safe_eval_expr call
    self_key,   \* I18NFormat.key of the window's other text widget
    prev,       \* history: arguments and outcome of the last finished call
    proc,       \* the _render_text calls that run at the same time
    app,        \* main(): position, shutdown hooks, container
    dialogs     \* aiogram_dialog: the dialog stack of each chat

\* The variables that the calls of one widget at a time leave alone.
rest == <<self_key, prev, proc, app, dialogs>>

vars == <<template, pc, data, i18n, pos, out, calls, trace, result,
          evNode, evData, evRes, rest>>

-----------------------------------------------------------------------------
(* Python values *)

StrV(s) == [t |-> "str", v |-> s]
IntV(n) == [t |-> "int", v |-> n]
ListV(s) == [t |-> "list", v |-> s]
TupleV(s) == [t |-> "tuple", v |-> s]
DictV(pairs) == [t |-> "dict", v |-> pairs]
ObjV(attrs) == [t |-> "object", v |-> attrs]
NoVal == [t |-> "<no value>", v |-> <<>>]

NoExc == [type |-> "None", msg |-> <<>>]
Ok(v, log) == [exc |-> NoExc, val |-> v, log |-> log]
Raise(type, msg, log) ==
    [exc |-> [type |-> type, msg |-> msg], val |-> NoVal, log |-> log]
Failed(r) == r.exc.type # "None"

-----------------------------------------------------------------------------
(* Syntax trees, as ast.parse(expr, mode="eval") builds them *)

NoneNode == [k |-> "None"]
Expression(body) == [k |-> "Expression", body |-> body]
Constant(v) == [k |-> "Constant", value |-> v]
Name(id) == [k |-> "Name", id |-> id]
Attribute(value, attr) == [k |-> "Attribute", value |-> value, attr |-> attr]
Subscript(value, slice) == [k |-> "Subscript", value |-> value, slice |-> slice]
Slice(lower, upper) == [k |-> "Slice", lower |-> lower, upper |-> upper]
TupleN(elts) == [k |-> "Tuple", elts |-> elts]
ListN(elts) == [k |-> "List", elts |-> elts]
DictN(keys, values) == [k |-> "Dict", keys |-> keys, values |-> values]
Call(func, args) == [k |-> "Call", func |-> func, args |-> args]
UnaryOp(operand) == [k |-> "UnaryOp", operand |-> operand]
BinOp(left, right) == [k |-> "BinOp", left |-> left, right |-> right]

-----------------------------------------------------------------------------
(* The object model the evaluator relies on: hash(), getattr(), obj[key] *)

RECURSIVE Hashable(_)
Hashable(v) ==
    CASE v.t \in {"list", "dict"} -> FALSE
      [] v.t = "tuple" -> \A i \in 1..Len(v.v) : Hashable(v.v[i])
      [] OTHER -> TRUE

SameValue(a, b) == a.t = b.t /\ a.v = b.v

\* getattr(obj, attr): an opaque object exposes its named attributes; the
\* model's attribute names are no attribute of a built-in type.
GetAttr(obj, attr, log) ==
    LET log2 == Append(log, <<"getattr", attr>>) IN
    IF obj.t = "object" /\ attr \in DOMAIN obj.v
    THEN Ok(obj.v[attr], log2)
    ELSE Raise("AttributeError", <<obj.t, "object has no attribute", attr>>, log2)

DictFind(pairs, key) ==
    {i \in 1..Len(pairs) : SameValue(pairs[i][1], key)}

\* obj[key]
GetItem(obj, key, log) ==
    LET log2 == Append(log, <<"getitem", obj.t>>) IN
    CASE obj.t \in {"list", "tuple", "str"} ->
            IF key.t # "int"
            THEN Raise("TypeError", <<obj.t, "indices must be integers">>, log2)
            ELSE IF key.v >= 0 /\ key.v < Len(obj.v)
            THEN Ok(IF obj.t = "str" THEN StrV(<<obj.v[key.v + 1]>>)
                                     ELSE obj.v[key.v + 1], log2)
            ELSE IF key.v < 0 /\ -key.v <= Len(obj.v)
            THEN Ok(IF obj.t = "str" THEN StrV(<<obj.v[Len(obj.v) + key.v + 1]>>)
                                     ELSE obj.v[Len(obj.v) + key.v + 1], log2)
            ELSE Raise("IndexError", <<obj.t, "index out of range">>, log2)
      [] obj.t = "dict" ->
            IF ~Hashable(key)
            THEN Raise("TypeError", <<"unhashable type", key.t>>, log2)
            ELSE IF DictFind(obj.v, key) # {}
            THEN Ok(obj.v[CHOOSE i \in DictFind(obj.v, key) : TRUE][2], log2)
            ELSE Raise("KeyError", <<key>>, log2)
      [] OTHER -> Raise("TypeError", <<obj.t, "object is not subscriptable">>, log2)

\* d[key] = value of a dict under construction: a repeated key keeps its
\* place and takes the new value.
DictSet(pairs, key, value) ==
    IF DictFind(pairs, key) # {}
    THEN [i \in 1..Len(pairs) |->
            IF SameValue(pairs[i][1], key) THEN <<key, value>> ELSE pairs[i]]
    ELSE Append(pairs, <<key, value>>)

-----------------------------------------------------------------------------
(* I18NFormatGetter's evaluator.  Every operator returns a record          *)
(* [exc, val, log]: the exception raised (NoExc when it returned), the     *)
(* value returned, and the log of what it did to the context and to the    *)
(* values in it, in the order done: <<"name", id>> for a lookup of `data`, *)
(* <<"getattr", a>>, <<"getitem", t>>, and <<"reject", k>> for the raise   *)
(* of "disallowed expression" or "slices are not allowed".                 *)

RECURSIVE eval_node(_, _), eval_elts(_, _, _, _), eval_items(_, _, _, _, _)

eval_name(node, d) ==
    LET log == <<<<"name", node.id>>>> IN
    IF node.id \in DOMAIN d
    THEN Ok(d[node.id], log)
    ELSE Raise("NameError", <<"name", node.id, "is not defined">>, log)

eval_attribute(node, d) ==
    LET obj == eval_node(node.value, d) IN
    IF Failed(obj) THEN obj
    ELSE GetAttr(obj.val, node.attr, obj.log)

\* eval_subscript with the key evaluated before the base.
eval_subscript_key_first(node, d) ==
    LET sl == node.slice
        key == IF sl = NoneNode \/ sl.k = "Slice" THEN Ok(NoVal, <<>>)
               ELSE eval_node(sl, d)
        obj == eval_node(node.value, d)
    IN  IF Failed(key) THEN key
        ELSE IF Failed(obj) THEN [obj EXCEPT !.log = key.log \o obj.log]
        ELSE IF sl = NoneNode
        THEN Raise("TypeError", <<"subscript slice is None">>, key.log \o obj.log)
        ELSE IF sl.k = "Slice"
        THEN Raise("TypeError", <<"slices are not allowed">>,
                   Append(obj.log, <<"reject", "Slice">>))
        ELSE GetItem(obj.val, key.val, key.log \o obj.log)

\* eval_subscript without the isinstance(sl, ast.Slice) test.
eval_subscript_no_slice_test(node, d) ==
    LET obj == eval_node(node.value, d)
        sl == node.slice
    IN  IF Failed(obj) THEN obj
        ELSE IF sl = NoneNode
        THEN Raise("TypeError", <<"subscript slice is None">>, obj.log)
        ELSE LET key == eval_node(sl, d) IN
             IF Failed(key)
             THEN [key EXCEPT !.log = obj.log \o key.log]
             ELSE GetItem(obj.val, key.val, obj.log \o key.log)

eval_subscript(node, d) ==
    LET obj == eval_node(node.value, d)
        sl == node.slice
    IN  IF Failed(obj) THEN obj
        ELSE IF sl = NoneNode
        THEN Raise("TypeError", <<"subscript slice is None">>, obj.log)
        ELSE IF sl.k = "Slice"
        THEN Raise("TypeError", <<"slices are not allowed">>,
                   Append(obj.log, <<"reject", "Slice">>))
        ELSE LET key == eval_node(sl, d) IN
             IF Failed(key)
             THEN [key EXCEPT !.log = obj.log \o key.log]
             ELSE GetItem(obj.val, key.val, obj.log \o key.log)

\* The elements of a Tuple or List node from index i on, left to right,
\* stopping at the first one that raises; acc holds the values so far.
eval_elts(elts, d, i, acc) ==
    IF i > Len(elts) THEN acc
    ELSE LET e == eval_node(elts[i], d) IN
         IF Failed(e)
         THEN [e EXCEPT !.log = acc.log \o e.log]
         ELSE eval_elts(elts, d, i + 1,
                        Ok(Append(acc.val, e.val), acc.log \o e.log))

\* The dict comprehension over zip(node.keys, node.values, strict=False):
\* an entry with no key node (a `**mapping` unpacking) or no value node is
\* skipped; otherwise the key is evaluated, then the value, then the entry
\* is stored, which hashes the key.
eval_items(keys, values, d, i, acc) ==
    IF i > Len(keys) \/ i > Len(values) THEN acc
    ELSE IF keys[i] = NoneNode \/ values[i] = NoneNode
    THEN eval_items(keys, values, d, i + 1, acc)
    ELSE LET key == eval_node(keys[i], d) IN
         IF Failed(key)
         THEN [key EXCEPT !.log = acc.log \o key.log]
         ELSE LET val == eval_node(values[i], d)
                  log == acc.log \o key.log \o val.log
              IN  IF Failed(val)
                  THEN [val EXCEPT !.log = log]
                  ELSE IF ~Hashable(key.val)
                  THEN Raise("TypeError", <<"unhashable type", key.val.t>>, log)
                  ELSE eval_items(keys, values, d, i + 1,
                                  Ok(DictSet(acc.val, key.val, val.val), log))

eval_node(node, d) ==
    CASE node.k = "Expression" -> eval_node(node.body, d)
      [] node.k = "Constant" -> Ok(node.value, <<>>)
      [] node.k = "Name" -> eval_name(node, d)
      [] node.k = "Attribute" -> eval_attribute(node, d)
      [] node.k = "Subscript" -> eval_subscript(node, d)
      [] node.k = "Tuple" ->
            LET r == eval_elts(node.elts, d, 1, Ok(<<>>, <<>>)) IN
            IF Failed(r) THEN r ELSE Ok(TupleV(r.val), r.log)
      [] node.k = "List" ->
            LET r == eval_elts(node.elts, d, 1, Ok(<<>>, <<>>)) IN
            IF Failed(r) THEN r ELSE Ok(ListV(r.val), r.log)
      [] node.k = "Dict" ->
            LET r == eval_items(node.keys, node.values, d, 1, Ok(<<>>, <<>>)) IN
            IF Failed(r) THEN r ELSE Ok(DictV(r.val), r.log)
      [] OTHER ->
            Raise("TypeError", <<"disallowed expression", node.k>>,
                  <<<<"reject", node.k>>>>)

-----------------------------------------------------------------------------
(* ast.parse(expr, mode="eval") on the texts the model's templates can     *)
(* hold: identifiers of the letters s and n, the numbers of the digits 1   *)
(* and 2, the minus sign, brackets, parentheses, comma, colon and blanks.  *)
(* Python's grammar there is                                               *)
(*   eval:    expr (',' expr)* [',']                                       *)
(*   expr:    factor ('-' factor)*                                         *)
(*   factor:  '-' factor | primary                                         *)
(*   primary: atom ('[' slices ']' | '(' [args] ')')*                      *)
(*   atom:    NAME | NUMBER | '(' [exprs] ')' | '[' [exprs] ']'            *)
(*   slice:   [expr] ':' [expr] [':' [expr]] | expr                        *)
(* and anything else is a SyntaxError, a text that starts with a blank     *)
(* included (IndentationError).                                            *)

IsBlank(c) == c = " "
IsLetter(c) == c \in {"s", "n"}
IsDigit(c) == c \in {"1", "2"}
IsPunct(c) == c \in {"[", "]", "(", ")", ",", ":"}

RECURSIVE NatVal(_, _)
NatVal(ds, acc) ==
    IF ds = <<>> THEN acc
    ELSE NatVal(Tail(ds), 10 * acc + (IF Head(ds) = "1" THEN 1 ELSE 2))

\* The token that the characters read into cur make.
WordToken(cur) ==
    IF IsDigit(cur[1]) THEN [kind |-> "NUMBER", id |-> cur]
    ELSE [kind |-> "NAME", id |-> cur]

RECURSIVE Tokenize(_, _, _, _)
\* cur is the identifier or number being read, toks the tokens read so far.
Tokenize(text, i, cur, toks) ==
    LET flushed == IF cur = <<>> THEN toks ELSE Append(toks, WordToken(cur))
    IN  IF i > Len(text) THEN flushed
        ELSE IF IsBlank(text[i]) THEN Tokenize(text, i + 1, <<>>, flushed)
        ELSE IF text[i] = "-"
        THEN Tokenize(text, i + 1, <<>>,
                      Append(flushed, [kind |-> "OP", id |-> <<"-">>]))
        ELSE IF IsLetter(text[i]) /\ (cur = <<>> \/ IsLetter(cur[1]))
        THEN Tokenize(text, i + 1, Append(cur, text[i]), toks)
        ELSE IF IsDigit(text[i])
        THEN Tokenize(text, i + 1, Append(cur, text[i]), toks)
        ELSE IF IsPunct(text[i])
        THEN Tokenize(text, i + 1, <<>>,
                      Append(flushed, [kind |-> text[i], id |-> <<text[i]>>]))
        ELSE Tokenize(text, i + 1, <<>>,
                      Append(flushed, [kind |-> "ERRORTOKEN", id |-> <<text[i]>>]))

NoParse == [node |-> NoneNode, next |-> 0]
KindAt(toks, i) == IF i > Len(toks) THEN "ENDMARKER" ELSE toks[i].kind

NoItems == [elts |-> <<>>, next |-> 0, comma |-> FALSE]

\* What the rule "items" starts with: the closing token, whether an item
\* may be a slice, the items read so far, whether a comma was read.
Items(close, slices) ==
    [close |-> close, slices |-> slices, acc |-> <<>>, comma |-> FALSE]

\* The rules of the grammar, from token i on; a holds what the rule is
\* given besides: the lower bound of a slice, the node the trailers apply
\* to, the left operand, the items read so far.  A rule gives the node (or
\* the items) it read and the index of the next token, 0 when the tokens
\* do not fit.
RECURSIVE Parse(_, _, _, _)
Parse(rule, toks, i, a) ==
    CASE rule = "expr" ->
            LET f == Parse("factor", toks, i, a) IN
            IF f.next = 0 THEN NoParse
            ELSE Parse("arith", toks, f.next, [left |-> f.node])
      \* [lower] ':' [upper] [':' [step]] after its lower bound; the step
      \* is not kept, no branch of the evaluator reads a Slice.
      [] rule = "slice" ->
            LET hasUpper == KindAt(toks, i) \notin {":", ",", "]", "ENDMARKER"}
                u == IF hasUpper THEN Parse("expr", toks, i, a)
                     ELSE [node |-> NoneNode, next |-> i]
            IN  IF u.next = 0 THEN NoParse
                ELSE IF KindAt(toks, u.next) # ":"
                THEN [node |-> Slice(a.lower, u.node), next |-> u.next]
                ELSE LET hasStep == KindAt(toks, u.next + 1) \notin
                                        {":", ",", "]", "ENDMARKER"}
                         st == IF hasStep
                               THEN Parse("expr", toks, u.next + 1, a)
                               ELSE [node |-> NoneNode, next |-> u.next + 1]
                     IN  IF st.next = 0 THEN NoParse
                         ELSE [node |-> Slice(a.lower, u.node),
                               next |-> st.next]
      \* One item of a sequence: an expression, or a slice where a.slices.
      [] rule = "item" ->
            IF a.slices /\ KindAt(toks, i) = ":"
            THEN Parse("slice", toks, i + 1, [lower |-> NoneNode])
            ELSE LET e == Parse("expr", toks, i, a) IN
                 IF e.next = 0 THEN NoParse
                 ELSE IF a.slices /\ KindAt(toks, e.next) = ":"
                 THEN Parse("slice", toks, e.next + 1, [lower |-> e.node])
                 ELSE e
      \* Items separated by commas up to the token a.close.
      [] rule = "items" ->
            IF KindAt(toks, i) = a.close
            THEN IF a.comma = (a.acc # <<>>)
                 THEN [elts |-> a.acc, next |-> i + 1, comma |-> a.comma]
                 ELSE NoItems
            ELSE LET r == Parse("item", toks, i, a) IN
                 IF r.next = 0 THEN NoItems
                 ELSE Parse("after_item", toks, r.next,
                            [a EXCEPT !.acc = Append(a.acc, r.node)])
      [] rule = "after_item" ->
            IF KindAt(toks, i) = a.close
            THEN [elts |-> a.acc, next |-> i + 1, comma |-> a.comma]
            ELSE IF KindAt(toks, i) = ","
            THEN Parse("items", toks, i + 1, [a EXCEPT !.comma = TRUE])
            ELSE NoItems
      [] rule = "atom" ->
            CASE KindAt(toks, i) = "NAME" ->
                    [node |-> Name(toks[i].id), next |-> i + 1]
              [] KindAt(toks, i) = "NUMBER" ->
                    [node |-> Constant(IntV(NatVal(toks[i].id, 0))),
                     next |-> i + 1]
              [] KindAt(toks, i) = "(" ->
                    LET r == Parse("items", toks, i + 1, Items(")", FALSE))
                    IN  IF r.next = 0 THEN NoParse
                        ELSE IF Len(r.elts) = 1 /\ ~r.comma
                        THEN [node |-> r.elts[1], next |-> r.next]
                        ELSE [node |-> TupleN(r.elts), next |-> r.next]
              [] KindAt(toks, i) = "[" ->
                    LET r == Parse("items", toks, i + 1, Items("]", FALSE))
                    IN  IF r.next = 0 THEN NoParse
                        ELSE [node |-> ListN(r.elts), next |-> r.next]
              [] OTHER -> NoParse
      [] rule = "trailers" ->
            CASE KindAt(toks, i) = "[" ->
                    LET r == Parse("items", toks, i + 1, Items("]", TRUE))
                    IN  IF r.next = 0 \/ r.elts = <<>> THEN NoParse
                        ELSE Parse("trailers", toks, r.next,
                                   [node |-> Subscript(
                                       a.node,
                                       IF Len(r.elts) = 1 /\ ~r.comma
                                       THEN r.elts[1] ELSE TupleN(r.elts))])
              [] KindAt(toks, i) = "(" ->
                    LET r == Parse("items", toks, i + 1, Items(")", FALSE))
                    IN  IF r.next = 0 THEN NoParse
                        ELSE Parse("trailers", toks, r.next,
                                   [node |-> Call(a.node, r.elts)])
              [] OTHER -> [node |-> a.node, next |-> i]
      [] rule = "factor" ->
            IF KindAt(toks, i) = "OP"
            THEN LET r == Parse("factor", toks, i + 1, a) IN
                 IF r.next = 0 THEN NoParse
                 ELSE [node |-> UnaryOp(r.node), next |-> r.next]
            ELSE LET t == Parse("atom", toks, i, a) IN
                 IF t.next = 0 THEN NoParse
                 ELSE Parse("trailers", toks, t.next, [node |-> t.node])
      [] rule = "arith" ->
            IF KindAt(toks, i) = "OP"
            THEN LET r == Parse("factor", toks, i + 1, a) IN
                 IF r.next = 0 THEN NoParse
                 ELSE Parse("arith", toks, r.next,
                            [left |-> BinOp(a.left, r.node)])
            ELSE [node |-> a.left, next |-> i]

SyntaxErrorNode == [k |-> "SyntaxError"]

ast_parse(text) ==
    LET toks == Tokenize(text, 1, <<>>, <<>>)
        r == Parse("items", toks, 1, Items("ENDMARKER", FALSE))
        indented == text # <<>> /\ IsBlank(text[1])
    IN  IF indented \/ r.next = 0 \/ r.elts = <<>> THEN SyntaxErrorNode
        ELSE IF Len(r.elts) = 1 /\ ~r.comma THEN Expression(r.elts[1])
        ELSE Expression(TupleN(r.elts))

safe_eval_expr(expr, d) ==
    LET root == ast_parse(expr) IN
    IF root = SyntaxErrorNode
    THEN Raise("SyntaxError", <<"invalid syntax">>, <<>>)
    ELSE eval_node(root, d)

\* safe_eval_expr on a text that ast.parse turns into the tree `body`.
safe_eval_tree(body, d) == eval_node(Expression(body), d)

-----------------------------------------------------------------------------
(* Direct calls of the static method safe_eval_expr: the inputs *)

MaxDepth == 1

\* Contexts of the direct calls: name -> value.
EvalContexts ==
    << (<<"a">> :> ListV(<<StrV(<<"x">>), StrV(<<"y">>)>>))
         @@ (<<"x">> :> IntV(0))
         @@ (<<"d">> :> DictV(<< <<StrV(<<"k">>), IntV(1)>> >>))
         @@ (<<"o">> :> ObjV([age |-> IntV(5)]))
         @@ (<<"f", "o", "o">> :> StrV(<<"f">>)),
       << >>,
       (<<"a">> :> IntV(7)) @@ (<<"x">> :> IntV(5))
         @@ (<<"f", "o", "o">> :> StrV(<<"f">>)),
       (<<"x">> :> IntV(1))
         @@ (<<"d">> :> DictV(<< <<IntV(1), StrV(<<"k">>)>> >>)) >>

Leaves ==
    { Constant(IntV(0)), Constant(StrV(<<"k">>)),
      Name(<<"a">>), Name(<<"x">>), Name(<<"d">>), Name(<<"o">>),
      Call(Name(<<"f", "o", "o">>), <<>>) }

Shapes ==
    {"Same", "Attribute", "Subscript", "SliceKey", "List", "Tuple", "Dict",
     "Unpacking", "UnaryOp"}

\* One more level of syntax over the trees n and m.
Build(shape, n, m) ==
    CASE shape = "Same" -> n
      [] shape = "Attribute" -> Attribute(n, "age")
      [] shape = "Subscript" -> Subscript(n, m)
      [] shape = "SliceKey" ->
            Subscript(n, Slice(Constant(IntV(1)), Constant(IntV(2))))
      [] shape = "List" -> ListN(<<n, m>>)
      [] shape = "Tuple" -> TupleN(<<n>>)
      [] shape = "Dict" -> DictN(<<n>>, <<m>>)
      [] shape = "Unpacking" -> DictN(<<NoneNode>>, <<n>>)
      [] shape = "UnaryOp" -> UnaryOp(n)

RECURSIVE TreesOfDepth(_)
TreesOfDepth(n) ==
    IF n = 0 THEN Leaves
    ELSE LET S == TreesOfDepth(n - 1) IN
         {Build(shape, x, y) : shape \in Shapes, x \in S, y \in S}

\* The trees handed to safe_eval_expr are Build(shape, n, m) for n, m here:
\* every tree of depth MaxDepth or less.
SubTrees == TreesOfDepth(MaxDepth - 1)

NoTree == NoneNode
NoData == << >>
NoRes == Ok(NoVal, <<>>)

-----------------------------------------------------------------------------
(* str(value) and repr(value) of the values the model holds *)

Digit(n) == <<"0", "1", "2", "3", "4", "5", "6", "7", "8", "9">>[n + 1]

RECURSIVE NatStr(_)
NatStr(n) == IF n < 10 THEN <<Digit(n)>> ELSE Append(NatStr(n \div 10), Digit(n % 10))

RECURSIVE PyRepr(_), JoinRepr(_, _), JoinItems(_, _)
JoinRepr(vs, i) ==
    IF i > Len(vs) THEN <<>>
    ELSE PyRepr(vs[i]) \o (IF i < Len(vs) THEN <<",", " ">> ELSE <<>>)
         \o JoinRepr(vs, i + 1)
JoinItems(ps, i) ==
    IF i > Len(ps) THEN <<>>
    ELSE PyRepr(ps[i][1]) \o <<":", " ">> \o PyRepr(ps[i][2])
         \o (IF i < Len(ps) THEN <<",", " ">> ELSE <<>>) \o JoinItems(ps, i + 1)
PyRepr(v) ==
    CASE v.t = "str" -> <<"'">> \o v.v \o <<"'">>
      [] v.t = "int" -> IF v.v < 0 THEN <<"-">> \o NatStr(-v.v) ELSE NatStr(v.v)
      [] v.t = "NoneType" -> <<"N", "o", "n", "e">>
      [] v.t = "list" -> <<"[">> \o JoinRepr(v.v, 1) \o <<"]">>
      [] v.t = "tuple" ->
            <<"(">> \o JoinRepr(v.v, 1)
                    \o (IF Len(v.v) = 1 THEN <<",">> ELSE <<>>) \o <<")">>
      [] v.t = "dict" -> <<"{">> \o JoinItems(v.v, 1) \o <<"}">>
      [] OTHER -> <<"<", v.t, ">">>

PyStr(v) == IF v.t = "str" THEN v.v ELSE PyRepr(v)

-----------------------------------------------------------------------------
(* The translator: fluentogram's TranslatorRunner.get(key, **params)       *)

NoneV == [t |-> "NoneType", v |-> <<>>]

K1 == <<"k", "1">>
K2 == <<"k", "2">>
K3 == <<"k", "3">>

\* The messages of the locale: k1's text itself looks like a placeholder,
\* k3 has no message.
Messages == << <<K1, <<"{", "s", "}">> >>, <<K2, <<"T">> >> >>

Runner == [t |-> "TranslatorRunner", v |-> Messages]

Get(runner, key, params) ==
    LET hit == {i \in 1..Len(runner.v) : runner.v[i][1] = key} IN
    IF hit = {} THEN NoneV ELSE StrV(runner.v[CHOOSE i \in hit : TRUE][2])

-----------------------------------------------------------------------------
(* self._pattern = re.compile(r"{([^{}]+)}") and its search                *)

\* The class [^}]: an opening brace is ordinary content.
IsBrace_closing_only(c) == c = "}"

IsBrace(c) == c \in {"{", "}"}

RECURSIVE RunEnd(_, _)
\* [^{}]+ is greedy: the index after the longest run of non-brace
\* characters that starts at j.
RunEnd(t, j) == IF j <= Len(t) /\ ~IsBrace(t[j]) THEN RunEnd(t, j + 1) ELSE j

RECURSIVE Backtrack(_, _, _)
\* With the run ending before index e, try "}" at e; on a mismatch give one
\* character back.  The run keeps at least one character.
Backtrack(t, i, e) ==
    IF e < i + 2 THEN 0
    ELSE IF e <= Len(t) /\ t[e] = "}" THEN e
    ELSE Backtrack(t, i, e - 1)

\* The index of the closing brace of a match that starts at i, or 0.
MatchAt(t, i) ==
    IF i > Len(t) \/ t[i] # "{" THEN 0
    ELSE Backtrack(t, i, RunEnd(t, i + 1))

NoMatch == [start |-> 0, end |-> 0]

RECURSIVE Search(_, _)
\* pattern.search(t, p): the leftmost match starting at index p or later.
Search(t, p) ==
    IF p > Len(t) THEN NoMatch
    ELSE IF MatchAt(t, p) # 0 THEN [start |-> p, end |-> MatchAt(t, p)]
    ELSE Search(t, p + 1)

group1(t, m) == SubSeq(t, m.start + 1, m.end - 1)

RECURSIVE LStrip(_)
LStrip(x) == IF x # <<>> /\ IsBlank(Head(x)) THEN LStrip(Tail(x)) ELSE x
RECURSIVE RStrip(_)
RStrip(x) ==
    IF x # <<>> /\ IsBlank(x[Len(x)]) THEN RStrip(SubSeq(x, 1, Len(x) - 1)) ELSE x
\* str.strip()
Strip(x) == RStrip(LStrip(x))

-----------------------------------------------------------------------------
(* I18NFormatGetter._render_text *)

\* The closure replace(match) yields a record: what it raises (exc, with
\* its cause) or the text it returns, the i18n.get calls it makes (gets)
\* and what it did, in order (did): the evaluation of the expression text,
\* the translator call, the return of the text that pattern.sub puts in the
\* match's place.
Evaluated(at, expr) == [op |-> "eval", at |-> at, key |-> expr]
Got(at, key) == [op |-> "get", at |-> at, key |-> key]
Gave(at, text) == [op |-> "return", at |-> at, key |-> text]

\* on_error that lets the evaluator's exception through as it is.
on_error_unwrapped(at, expr, raw) ==
    [exc |-> raw.exc, cause |-> NoExc, text |-> <<>>, gets |-> <<>>,
     did |-> <<Evaluated(at, expr)>>]

\* Lines 73-74: any exception of safe_eval_expr is raised again as a
\* ValueError that quotes the expression, `from e`.
on_error(at, expr, raw) ==
    [exc |-> [type |-> "ValueError",
              msg |-> <<"Invalid format expression", expr>>],
     cause |-> raw.exc, text |-> <<>>, gets |-> <<>>,
     did |-> <<Evaluated(at, expr)>>]

\* on_string that hands the translator only the names the expression used.
on_string_names_used(at, expr, key, d, tr) ==
    LET used == [n \in DOMAIN d \cap {expr} |-> d[n]]
        translated == Get(tr, key, used)
    IN  IF translated = NoneV
        THEN [exc |-> [type |-> "KeyError",
                       msg |-> <<"Translation key not found", key>>],
              cause |-> NoExc, text |-> <<>>,
              gets |-> <<[key |-> key, params |-> used]>>,
              did |-> <<Evaluated(at, expr), Got(at, key)>>]
        ELSE [exc |-> NoExc, cause |-> NoExc, text |-> translated.v,
              gets |-> <<[key |-> key, params |-> used]>>,
              did |-> <<Evaluated(at, expr), Got(at, key),
                        Gave(at, translated.v)>>]

\* on_string that shows the key itself when it has no translation.
on_string_shows_key(at, expr, key, d, tr) ==
    LET translated == Get(tr, key, d) IN
    [exc |-> NoExc, cause |-> NoExc,
     text |-> IF translated = NoneV THEN key ELSE translated.v,
     gets |-> <<[key |-> key, params |-> d]>>,
     did |-> <<Evaluated(at, expr), Got(at, key),
               Gave(at, IF translated = NoneV THEN key ELSE translated.v)>>]

\* Lines 76-80: a str value is a translation key.
on_string(at, expr, key, d, tr) ==
    LET translated == Get(tr, key, d)
        call == [key |-> key, params |-> d]
    IN  IF translated = NoneV
        THEN [exc |-> [type |-> "KeyError",
                       msg |-> <<"Translation key not found", key>>],
              cause |-> NoExc, text |-> <<>>, gets |-> <<call>>,
              did |-> <<Evaluated(at, expr), Got(at, key)>>]
        ELSE [exc |-> NoExc, cause |-> NoExc, text |-> translated.v,
              gets |-> <<call>>,
              did |-> <<Evaluated(at, expr), Got(at, key),
                        Gave(at, translated.v)>>]

\* on_other that asks the translator for str(value) first.
on_other_translated(at, expr, value, d, tr) ==
    LET translated == Get(tr, PyStr(value), d) IN
    [exc |-> NoExc, cause |-> NoExc,
     text |-> IF translated = NoneV THEN PyStr(value) ELSE translated.v,
     gets |-> <<[key |-> PyStr(value), params |-> d]>>,
     did |-> <<Evaluated(at, expr), Got(at, PyStr(value)),
               Gave(at, IF translated = NoneV THEN PyStr(value)
                        ELSE translated.v)>>]

\* Line 81: any other value is shown as str(value).
on_other(at, expr, value, d, tr) ==
    [exc |-> NoExc, cause |-> NoExc, text |-> PyStr(value), gets |-> <<>>,
     did |-> <<Evaluated(at, expr), Gave(at, PyStr(value))>>]

replace(t, m, d, tr) ==
    LET expr == Strip(group1(t, m))
        raw == safe_eval_expr(expr, d)
    IN  IF Failed(raw) THEN on_error(m.start, expr, raw)
        ELSE IF raw.val.t = "str" THEN on_string(m.start, expr, raw.val.v, d, tr)
        ELSE on_other(m.start, expr, raw.val, d, tr)

NoResult == [status |-> "none", val |-> <<>>, exc |-> NoExc, cause |-> NoExc]
Returned(text) == [status |-> "returned", val |-> text, exc |-> NoExc, cause |-> NoExc]
Raised(exc, cause) == [status |-> "raised", val |-> <<>>, exc |-> exc, cause |-> cause]

MaxLen == 6

Alphabet == {"{", "}", "s", "n", "-", " "}

Templates == UNION {[1..n -> Alphabet] : n \in 0..MaxLen}

\* The `data` of a render call.
RenderContexts ==
    << (<<"s">> :> StrV(K1)) @@ (<<"n">> :> StrV(K2))
           @@ (<<"s", "s">> :> ListV(<<StrV(K1), IntV(1)>>)),
       (<<"s">> :> IntV(5)) @@ (<<"n">> :> StrV(K1)),
       (<<"s">> :> StrV(K3)) @@ (<<"n">> :> StrV(K1)) >>

\* middleware_data.get("i18n")
Middleware == <<Runner, NoneV>>

EvalIdle == evNode = NoTree /\ evData = NoData /\ evRes = NoRes

\* No I18NFormat widget, no call finished yet, no calls side by side, the
\* application not started.
NoKey == <<"<no widget>">>
RestIdle ==
    /\ self_key = NoKey /\ prev = <<>> /\ proc = <<>>
    /\ app = <<>> /\ dialogs = <<>>

CallIdle ==
    /\ pc = "idle" /\ data = NoData /\ i18n = NoneV /\ pos = 0
    /\ out = <<>> /\ calls = <<>> /\ trace = <<>> /\ result = NoResult

\* I18NFormatGetter(template): the widget is built once.
Init == template \in Templates /\ CallIdle /\ EvalIdle /\ RestIdle

\* _render_text is entered: lines 65-67, then pattern.sub starts.
Render(d, tr) ==
    /\ pc = "idle"
    /\ data' = d
    /\ i18n' = tr
    /\ IF tr = NoneV
       THEN /\ pc' = "raised"
            /\ result' = Raised([type |-> "RuntimeError",
                                 msg |-> <<"TranslatorRunner 'i18n' not found in middleware_data">>],
                                NoExc)
            /\ pos' = 0
       ELSE /\ pc' = "sub"
            /\ result' = NoResult
            /\ pos' = 1
    /\ UNCHANGED <<template, out, calls, trace, evNode, evData, evRes, rest>>

\* SubMatch that swallows the failure of a placeholder and goes on.
SubMatch_best_effort ==
    /\ pc = "sub"
    /\ Search(template, pos) # NoMatch
    /\ LET m == Search(template, pos)
           r == replace(template, m, data, i18n)
       IN  /\ calls' = calls \o r.gets
           /\ trace' = trace \o r.did
           /\ out' = out \o SubSeq(template, pos, m.start - 1) \o r.text
           /\ pos' = m.end + 1
    /\ UNCHANGED <<template, pc, result, data, i18n, evNode, evData, evRes, rest>>

\* SubMatch that formats the substituted text again when it holds a
\* placeholder of its own.
SubMatch_rescan ==
    /\ pc = "sub"
    /\ Search(template, pos) # NoMatch
    /\ LET m == Search(template, pos)
           r == replace(template, m, data, i18n)
           again == r.exc.type = "None" /\ Search(r.text, 1) # NoMatch
           r2 == IF again
                 THEN replace(r.text, Search(r.text, 1), data, i18n) ELSE r
       IN  /\ calls' = calls \o r.gets \o (IF again THEN r2.gets ELSE <<>>)
           /\ trace' = trace \o r.did \o (IF again THEN r2.did ELSE <<>>)
           /\ IF r2.exc.type # "None"
              THEN /\ pc' = "raised"
                   /\ result' = Raised(r2.exc, r2.cause)
                   /\ out' = <<>>
                   /\ pos' = pos
              ELSE /\ pc' = "sub"
                   /\ result' = result
                   /\ out' = out \o SubSeq(template, pos, m.start - 1) \o r2.text
                   /\ pos' = m.end + 1
    /\ UNCHANGED <<template, data, i18n, evNode, evData, evRes, rest>>

\* SubMatch that binds the text it substituted to the name _ in the data.
SubMatch_binds_text ==
    /\ pc = "sub"
    /\ Search(template, pos) # NoMatch
    /\ LET m == Search(template, pos)
           r == replace(template, m, data, i18n)
       IN  /\ calls' = calls \o r.gets
           /\ trace' = trace \o r.did
           /\ data' = [n \in DOMAIN data \cup {<<"_">>} |->
                         IF n = <<"_">> THEN StrV(r.text) ELSE data[n]]
           /\ IF r.exc.type # "None"
              THEN /\ pc' = "raised"
                   /\ result' = Raised(r.exc, r.cause)
                   /\ out' = <<>>
                   /\ pos' = pos
              ELSE /\ pc' = "sub"
                   /\ result' = result
                   /\ out' = out \o SubSeq(template, pos, m.start - 1) \o r.text
                   /\ pos' = m.end + 1
    /\ UNCHANGED <<template, i18n, evNode, evData, evRes, rest>>

\* pattern.sub found the next match and called replace(match).
SubMatch ==
    /\ pc = "sub"
    /\ Search(template, pos) # NoMatch
    /\ LET m == Search(template, pos)
           r == replace(template, m, data, i18n)
       IN  /\ calls' = calls \o r.gets
           /\ trace' = trace \o r.did
           /\ IF r.exc.type # "None"
              THEN /\ pc' = "raised"
                   /\ result' = Raised(r.exc, r.cause)
                   /\ out' = <<>>
                   /\ pos' = pos
              ELSE /\ pc' = "sub"
                   /\ result' = result
                   /\ out' = out \o SubSeq(template, pos, m.start - 1) \o r.text
                   /\ pos' = m.end + 1
    /\ UNCHANGED <<template, data, i18n, evNode, evData, evRes, rest>>

\* SubEnd that returns what was joined up to the last match.
SubEnd_drops_tail ==
    /\ pc = "sub"
    /\ Search(template, pos) = NoMatch
    /\ out' = out
    /\ result' = Returned(out')
    /\ pc' = "returned"
    /\ pos' = Len(template) + 1
    /\ UNCHANGED <<template, data, i18n, calls, trace, evNode, evData, evRes, rest>>

\* pattern.sub found no further match: the rest of the template is copied
\* and the joined string returned.
SubEnd ==
    /\ pc = "sub"
    /\ Search(template, pos) = NoMatch
    /\ out' = out \o SubSeq(template, pos, Len(template))
    /\ result' = Returned(out')
    /\ pc' = "returned"
    /\ pos' = Len(template) + 1
    /\ UNCHANGED <<template, data, i18n, calls, trace, evNode, evData, evRes, rest>>

\* The caller has taken the result; the call's locals are gone.
Done ==
    /\ pc \in {"returned", "raised"}
    /\ pc' = "idle" /\ data' = NoData /\ i18n' = NoneV /\ pos' = 0
    /\ out' = <<>> /\ calls' = <<>> /\ trace' = <<>> /\ result' = NoResult
    /\ UNCHANGED <<template, evNode, evData, evRes, rest>>

Next ==
    \/ \E i \in 1..Len(RenderContexts), j \in 1..Len(Middleware) :
          Render(RenderContexts[i], Middleware[j])
    \/ SubMatch
    \/ SubEnd
    \/ Done

Spec == Init /\ [][Next]_vars

-----------------------------------------------------------------------------
(* The calls of a window's text widget, one after the other: the widget is *)
(* an I18NFormatGetter (template) or an I18NFormat (self_key)              *)

MaxCallLen == 4

CallTemplates == UNION {[1..n -> Alphabet] : n \in 0..MaxCallLen}

\* I18NFormat(key=...): k1's translation and the third key look like
\* placeholders, k3 has no translation.
Keys == {K1, K3, <<"{", "s", "}">>}

InitCalls ==
    /\ \/ self_key = NoKey /\ template \in CallTemplates
       \/ self_key \in Keys /\ template = <<>>
    /\ CallIdle /\ EvalIdle
    /\ prev = <<>> /\ proc = <<>> /\ app = <<>> /\ dialogs = <<>>

\* RenderKey that formats the translated text as a template of its own.
RenderKey_formats(d, tr) ==
    /\ pc = "idle"
    /\ self_key # NoKey
    /\ tr # NoneV
    /\ data' = d
    /\ i18n' = tr
    /\ LET value == Get(tr, self_key, d)
           m == IF value = NoneV THEN NoMatch ELSE Search(value.v, 1)
           r == replace(value.v, m, d, tr)
       IN  /\ calls' = <<[key |-> self_key, params |-> d]>>
                           \o (IF m = NoMatch THEN <<>> ELSE r.gets)
           /\ trace' = IF m = NoMatch THEN <<>> ELSE r.did
           /\ IF value = NoneV
              THEN /\ pc' = "key_raised"
                   /\ result' = Raised([type |-> "KeyError",
                                        msg |-> <<"Translation key not found",
                                                  self_key>>], NoExc)
              ELSE IF m # NoMatch /\ r.exc.type # "None"
              THEN /\ pc' = "key_raised"
                   /\ result' = Raised(r.exc, r.cause)
              ELSE /\ pc' = "key_returned"
                   /\ result' = Returned(IF m = NoMatch THEN value.v
                                         ELSE SubSeq(value.v, 1, m.start - 1)
                                              \o r.text
                                              \o SubSeq(value.v, m.end + 1,
                                                        Len(value.v)))
    /\ UNCHANGED <<template, pos, out, evNode, evData, evRes, rest>>

\* I18NFormat._render_text, lines 19-24: the translator is not tested for
\* None, i18n.get on None is an AttributeError.
RenderKey(d, tr) ==
    /\ pc = "idle"
    /\ self_key # NoKey
    /\ data' = d
    /\ i18n' = tr
    /\ IF tr = NoneV
       THEN /\ pc' = "key_raised"
            /\ result' = Raised([type |-> "AttributeError",
                                 msg |-> <<"'NoneType' object has no attribute 'get'">>],
                                NoExc)
            /\ calls' = <<>>
       ELSE LET value == Get(tr, self_key, d) IN
            /\ calls' = <<[key |-> self_key, params |-> d]>>
            /\ IF value = NoneV
               THEN /\ pc' = "key_raised"
                    /\ result' = Raised([type |-> "KeyError",
                                         msg |-> <<"Translation key not found",
                                                   self_key>>], NoExc)
               ELSE /\ pc' = "key_returned"
                    /\ result' = Returned(value.v)
    /\ UNCHANGED <<template, pos, out, trace, evNode, evData, evRes, rest>>

Finished == pc \in {"returned", "raised", "key_returned", "key_raised"}

\* Return that leaves the joined pieces of the call behind.
Return_keeps_buffer ==
    /\ Finished
    /\ prev' = <<[data |-> data, i18n |-> i18n, result |-> result,
                  calls |-> calls]>>
    /\ pc' = "idle" /\ data' = NoData /\ i18n' = NoneV /\ pos' = 0
    /\ calls' = <<>> /\ trace' = <<>> /\ result' = NoResult
    /\ UNCHANGED <<template, out, evNode, evData, evRes, self_key, proc, app,
                   dialogs>>

\* The call returns to its caller or raises: its locals are gone, the
\* widget is as it was.  prev notes the call for the comparison with the
\* next one.
Return ==
    /\ Finished
    /\ prev' = <<[data |-> data, i18n |-> i18n, result |-> result,
                  calls |-> calls]>>
    /\ pc' = "idle" /\ data' = NoData /\ i18n' = NoneV /\ pos' = 0
    /\ out' = <<>> /\ calls' = <<>> /\ trace' = <<>> /\ result' = NoResult
    /\ UNCHANGED <<template, evNode, evData, evRes, self_key, proc, app,
                   dialogs>>

NextCalls ==
    \/ \E i \in 1..Len(RenderContexts), j \in 1..Len(Middleware) :
          self_key = NoKey /\ Render(RenderContexts[i], Middleware[j])
    \/ SubMatch
    \/ SubEnd
    \/ \E i \in 1..Len(RenderContexts), j \in 1..Len(Middleware) :
          RenderKey(RenderContexts[i], Middleware[j])
    \/ Return

SpecCalls == InitCalls /\ [][NextCalls]_vars

-----------------------------------------------------------------------------
(* Calls of _render_text on one widget side by side: each call has its own *)
(* frame (data, i18n, the position and the pieces of pattern.sub); the     *)
(* calls may change places between two matches, which is wherever a        *)
(* translator call has just come back                                       *)

NCalls == 2
MaxPieces == 2

Pieces == {<<"{", "s", "}">>, <<"{", "n", "}">>, <<"-">>,
           <<"{", "-", "s", "}">>}

RECURSIVE Joined(_)
Joined(n) ==
    IF n = 0 THEN {<<>>}
    ELSE Joined(n - 1) \cup {a \o b : a \in Joined(n - 1), b \in Pieces}

ConcTemplates == Joined(MaxPieces)

IdleCall ==
    [pc |-> "idle", data |-> NoData, i18n |-> NoneV, pos |-> 0,
     out |-> <<>>, calls |-> <<>>, result |-> NoResult]

\* _render_text up to pattern.sub: the frame of a call just entered.
entered(d, tr) ==
    IF tr = NoneV
    THEN [IdleCall EXCEPT
            !.pc = "raised", !.data = d, !.i18n = tr,
            !.result = Raised([type |-> "RuntimeError",
                               msg |-> <<"TranslatorRunner 'i18n' not found in middleware_data">>],
                              NoExc)]
    ELSE [IdleCall EXCEPT !.pc = "sub", !.data = d, !.i18n = tr, !.pos = 1]

\* pattern.sub goes on by one match, or ends.
resumed(t, c) ==
    LET m == Search(t, c.pos) IN
    IF m = NoMatch
    THEN LET text == c.out \o SubSeq(t, c.pos, Len(t)) IN
         [c EXCEPT !.pc = "returned", !.out = text, !.pos = Len(t) + 1,
                   !.result = Returned(text)]
    ELSE LET r == replace(t, m, c.data, c.i18n) IN
         IF r.exc.type # "None"
         THEN [c EXCEPT !.pc = "raised", !.out = <<>>,
                        !.calls = c.calls \o r.gets,
                        !.result = Raised(r.exc, r.cause)]
         ELSE [c EXCEPT !.out = c.out \o SubSeq(t, c.pos, m.start - 1)
                                      \o r.text,
                        !.pos = m.end + 1,
                        !.calls = c.calls \o r.gets]

\* The call run from entry to its end with nothing in between.
RECURSIVE run_alone(_, _)
run_alone(t, c) == IF c.pc = "sub" THEN run_alone(t, resumed(t, c)) ELSE c

RenderAlone(t, d, tr) == run_alone(t, entered(d, tr))

InitConc ==
    /\ template \in ConcTemplates
    /\ CallIdle /\ EvalIdle
    /\ self_key = NoKey /\ prev = <<>> /\ app = <<>> /\ dialogs = <<>>
    /\ proc = [p \in 1..NCalls |-> IdleCall]

Enter(p, d, tr) ==
    /\ proc[p].pc = "idle"
    /\ proc' = [proc EXCEPT ![p] = entered(d, tr)]
    /\ UNCHANGED <<template, pc, data, i18n, pos, out, calls, trace, result,
                   evNode, evData, evRes, self_key, prev, app, dialogs>>

\* Resume with the position of the scan kept on the widget: every call
\* under way goes on from where the last match of any call ended.
Resume_shared_position(p) ==
    /\ proc[p].pc = "sub"
    /\ LET c == resumed(template, proc[p]) IN
       proc' = [q \in 1..NCalls |->
                   IF q = p THEN c
                   ELSE IF proc[q].pc = "sub" /\ c.pc = "sub"
                        THEN [proc[q] EXCEPT !.pos = c.pos]
                        ELSE proc[q]]
    /\ UNCHANGED <<template, pc, data, i18n, pos, out, calls, trace, result,
                   evNode, evData, evRes, self_key, prev, app, dialogs>>

Resume(p) ==
    /\ proc[p].pc = "sub"
    /\ proc' = [proc EXCEPT ![p] = resumed(template, proc[p])]
    /\ UNCHANGED <<template, pc, data, i18n, pos, out, calls, trace, result,
                   evNode, evData, evRes, self_key, prev, app, dialogs>>

Leave(p) ==
    /\ proc[p].pc \in {"returned", "raised"}
    /\ proc' = [proc EXCEPT ![p] = IdleCall]
    /\ UNCHANGED <<template, pc, data, i18n, pos, out, calls, trace, result,
                   evNode, evData, evRes, self_key, prev, app, dialogs>>

NextConc ==
    \/ \E p \in 1..NCalls, i \in 1..Len(RenderContexts),
          j \in 1..Len(Middleware) :
          Enter(p, RenderContexts[i], Middleware[j])
    \/ \E p \in 1..NCalls : Resume(p)
    \/ \E p \in 1..NCalls : Leave(p)

SpecConc == InitConc /\ [][NextConc]_vars

-----------------------------------------------------------------------------
(* The application: main() runs the bot, the bot handles /start and the    *)
(* clicks of each chat with the default dialog, then main() shuts down     *)

MaxChats == 2
Chats == 1..MaxChats

\* default_dialog with a way back from the last window.
default_dialog_with_way_back ==
    [main |-> {[id |-> "btn_my_pipelines",
                on_click |-> "on_select_wrong_button"],
               [id |-> "btn_quick_access",
                on_click |-> "on_select_right_button"]},
     wrong_button |-> {[id |-> "btn_quick_access",
                        on_click |-> "on_select_right_button"]},
     right_button |-> {[id |-> "btn_my_pipelines",
                        on_click |-> "on_select_wrong_button"]}]

\* windows.py: the three windows by state, each with the buttons it shows.
default_dialog ==
    [main |-> {[id |-> "btn_my_pipelines",
                on_click |-> "on_select_wrong_button"],
               [id |-> "btn_quick_access",
                on_click |-> "on_select_right_button"]},
     wrong_button |-> {[id |-> "btn_quick_access",
                        on_click |-> "on_select_right_button"]},
     right_button |-> {}]

ButtonIds == {"btn_my_pipelines", "btn_quick_access"}

\* dialog_manager.switch_to(state): the window on top of the stack changes.
switch_to(stack, state) == [stack EXCEPT ![Len(stack)] = state]

\* dialog_manager.start(state, mode=StartMode.RESET_STACK)
start_reset_stack(stack, state) == <<state>>

on_select_wrong_button(stack) == switch_to(stack, "wrong_button")

on_select_right_button(stack) == switch_to(stack, "right_button")

start_command(stack) == start_reset_stack(stack, "main")

\* The window a chat is in: the top of its stack.
StateOf(stack) == IF stack = <<>> THEN "none" ELSE stack[Len(stack)]

\* The buttons of the window on top of the stack with the id clicked.
Clicked(stack, id) ==
    IF stack = <<>> THEN {}
    ELSE {b \in default_dialog[StateOf(stack)] : b.id = id}

NoDialog == [stack |-> <<>>, last |-> "none"]

\* main() before application.run(): nothing registered, nothing closed.
Built(mode) ==
    [pc |-> "built", mode |-> mode, registered |-> FALSE, emitted |-> FALSE,
     closed |-> FALSE, container_closed |-> FALSE, outcome |-> "none"]

InitBot ==
    /\ template = <<>> /\ CallIdle /\ EvalIdle
    /\ self_key = NoKey /\ prev = <<>> /\ proc = <<>>
    /\ app \in {Built("polling"), Built("webhook")}
    /\ dialogs = [c \in Chats |-> NoDialog]

\* application.run() in development: dispatcher.start_polling begins.
RunPolling ==
    /\ app.pc = "built" /\ app.mode = "polling"
    /\ app' = [app EXCEPT !.pc = "running"]
    /\ UNCHANGED <<template, pc, data, i18n, pos, out, calls, trace, result,
                   evNode, evData, evRes, self_key, prev, proc, dialogs>>

\* application.run() otherwise: the webhook is set and the server started
\* (ok), or one of the steps before the wait raises (self.dp, the network).
RunWebhook(ok) ==
    /\ app.pc = "built" /\ app.mode = "webhook"
    /\ app' = IF ok THEN [app EXCEPT !.pc = "running"]
              ELSE [app EXCEPT !.pc = "run_ended", !.outcome = "raised"]
    /\ UNCHANGED <<template, pc, data, i18n, pos, out, calls, trace, result,
                   evNode, evData, evRes, self_key, prev, proc, dialogs>>

\* /start from chat c
StartCommand(c) ==
    /\ app.pc = "running"
    /\ dialogs' = [dialogs EXCEPT ![c] =
                      [stack |-> start_command(dialogs[c].stack),
                       last |-> "start_command"]]
    /\ UNCHANGED <<template, pc, data, i18n, pos, out, calls, trace, result,
                   evNode, evData, evRes, self_key, prev, proc, app>>

\* A click from chat c on a button with this id, of a message of any age:
\* the window the chat is in handles it if it has such a button.
Click(c, id) ==
    /\ app.pc = "running"
    /\ LET stack == dialogs[c].stack
           hit == Clicked(stack, id)
       IN  dialogs' = [dialogs EXCEPT ![c] =
              IF hit = {} THEN [stack |-> stack, last |-> "unhandled"]
              ELSE LET b == CHOOSE b \in hit : TRUE IN
                   [stack |-> IF b.on_click = "on_select_wrong_button"
                              THEN on_select_wrong_button(stack)
                              ELSE on_select_right_button(stack),
                    last |-> b.on_click]]
    /\ UNCHANGED <<template, pc, data, i18n, pos, out, calls, trace, result,
                   evNode, evData, evRes, self_key, prev, proc, app>>

\* start_polling ends, by a signal (returned) or an error (raised), and
\* emits the dispatcher's shutdown event on its way out: the hooks
\* registered by then run.
StopPolling(outcome) ==
    /\ app.pc = "running" /\ app.mode = "polling"
    /\ app' = [app EXCEPT !.pc = "run_ended", !.outcome = outcome,
                          !.emitted = TRUE,
                          !.container_closed = app.registered]
    /\ UNCHANGED <<template, pc, data, i18n, pos, out, calls, trace, result,
                   evNode, evData, evRes, self_key, prev, proc, dialogs>>

\* The wait on asyncio.Event() is cancelled; runner.cleanup() runs; the
\* dispatcher's shutdown event is not emitted on this path.
StopWebhook ==
    /\ app.pc = "running" /\ app.mode = "webhook"
    /\ app' = [app EXCEPT !.pc = "run_ended", !.outcome = "raised"]
    /\ UNCHANGED <<template, pc, data, i18n, pos, out, calls, trace, result,
                   evNode, evData, evRes, self_key, prev, proc, dialogs>>

\* main()'s finally block: application.close(), which does nothing, then
\* dispatcher.shutdown.register(container.close); main() ends.
Close ==
    /\ app.pc = "run_ended"
    /\ app' = [app EXCEPT !.pc = "exited", !.closed = TRUE,
                          !.registered = TRUE]
    /\ UNCHANGED <<template, pc, data, i18n, pos, out, calls, trace, result,
                   evNode, evData, evRes, self_key, prev, proc, dialogs>>

NextBot ==
    \/ RunPolling
    \/ \E ok \in BOOLEAN : RunWebhook(ok)
    \/ \E c \in Chats : StartCommand(c)
    \/ \E c \in Chats, id \in ButtonIds : Click(c, id)
    \/ \E outcome \in {"returned", "raised"} : StopPolling(outcome)
    \/ StopWebhook
    \/ Close

SpecBot == InitBot /\ [][NextBot]_vars

-----------------------------------------------------------------------------
(* Renders of a template that is one placeholder around the text of a      *)
(* composite literal                                                       *)

MaxElts == 2

LitLeaf == Constant(IntV(1))
SeqsOver(S) == UNION {[1..n -> S] : n \in 0..MaxElts}

\* The lists, tuples and mappings with elements and values from S; a key is
\* the number.
CompositesOver(S) ==
    {ListN(e) : e \in SeqsOver(S)} \cup {TupleN(e) : e \in SeqsOver(S)}
        \cup {DictN(p[1], p[2]) :
                  p \in {q \in SeqsOver({LitLeaf}) \X SeqsOver(S) :
                             Len(q[1]) = Len(q[2])}}

Literals == CompositesOver({LitLeaf} \cup CompositesOver({LitLeaf}))

\* The source text of a literal, as one writes it in a template.
RECURSIVE Unparse(_), UnparseElts(_, _), UnparseItems(_, _, _)
UnparseElts(elts, i) ==
    IF i > Len(elts) THEN <<>>
    ELSE Unparse(elts[i]) \o (IF i < Len(elts) THEN <<",", " ">> ELSE <<>>)
         \o UnparseElts(elts, i + 1)
UnparseItems(keys, values, i) ==
    IF i > Len(keys) THEN <<>>
    ELSE Unparse(keys[i]) \o <<":", " ">> \o Unparse(values[i])
         \o (IF i < Len(keys) THEN <<",", " ">> ELSE <<>>)
         \o UnparseItems(keys, values, i + 1)
Unparse(node) ==
    CASE node.k = "Constant" -> NatStr(node.value.v)
      [] node.k = "List" -> <<"[">> \o UnparseElts(node.elts, 1) \o <<"]">>
      [] node.k = "Tuple" ->
            <<"(">> \o UnparseElts(node.elts, 1)
                    \o (IF Len(node.elts) = 1 THEN <<",">> ELSE <<>>) \o <<")">>
      [] node.k = "Dict" ->
            <<"{">> \o UnparseItems(node.keys, node.values, 1) \o <<"}">>

PlaceholderOf(node) == <<"{">> \o Unparse(node) \o <<"}">>

InitLit ==
    /\ template \in {PlaceholderOf(l) : l \in Literals}
    /\ CallIdle /\ EvalIdle /\ RestIdle

SpecLit == InitLit /\ [][Next]_vars

-----------------------------------------------------------------------------
(* Direct calls of safe_eval_expr *)

InitEval == template = <<>> /\ CallIdle /\ EvalIdle /\ RestIdle

SafeEval(body, d) ==
    /\ evNode' = body
    /\ evData' = d
    /\ evRes' = safe_eval_tree(body, d)
    /\ UNCHANGED <<template, pc, data, i18n, pos, out, calls, trace, result, rest>>

EvalDone ==
    /\ evNode # NoTree
    /\ evNode' = NoTree /\ evData' = NoData /\ evRes' = NoRes
    /\ UNCHANGED <<template, pc, data, i18n, pos, out, calls, trace, result, rest>>

NextEval ==
    \/ /\ evNode = NoTree
       /\ \E shape \in Shapes, n \in SubTrees, m \in SubTrees :
             \E i \in 1..Len(EvalContexts) :
                SafeEval(Build(shape, n, m), EvalContexts[i])
    \/ EvalDone

SpecEval == InitEval /\ [][NextEval]_vars

-----------------------------------------------------------------------------
(* Properties of the evaluator, checked under SpecEval *)

LegalKinds ==
    {"Expression", "Constant", "Name", "Attribute", "Subscript", "Tuple",
     "List", "Dict"}

RECURSIVE ContainsForbidden(_)
\* The tree holds, at any depth, a node outside the legal kinds.
ContainsForbidden(node) ==
    CASE node.k = "None" -> FALSE
      [] node.k \notin LegalKinds -> TRUE
      [] node.k = "Expression" -> ContainsForbidden(node.body)
      [] node.k = "Attribute" -> ContainsForbidden(node.value)
      [] node.k = "Subscript" ->
            ContainsForbidden(node.value) \/ ContainsForbidden(node.slice)
      [] node.k \in {"Tuple", "List"} ->
            \E i \in 1..Len(node.elts) : ContainsForbidden(node.elts[i])
      [] node.k = "Dict" ->
            \/ \E i \in 1..Len(node.keys) : ContainsForbidden(node.keys[i])
            \/ \E i \in 1..Len(node.values) : ContainsForbidden(node.values[i])
      [] OTHER -> FALSE

\* The failure is the evaluator's own rejection of forbidden syntax.
IsRejected(r) ==
    /\ r.exc.type = "TypeError"
    /\ r.exc.msg[1] \in {"disallowed expression", "slices are not allowed"}

SameExc(a, b) == a.type = b.type /\ a.msg = b.msg

Called == evNode # NoTree

\* C1: an expression whose tree holds a forbidden node anywhere, mapping
\* unpacking included, never evaluates to a value: the call fails.
C1_ForbiddenNeverReturnsValue ==
    (Called /\ ContainsForbidden(evNode)) => Failed(evRes)

RECURSIVE Visit(_), VisitSeq(_, _), VisitItems(_, _, _)
\* The names a tree looks up and the node it is rejected at, in evaluation
\* order when no step fails: base before key, elements left to right, a
\* mapping's key before its value, unpacking entries skipped; nothing
\* follows a rejection.
Rejects(plan) == plan # <<>> /\ plan[Len(plan)][1] = "reject"
Then(p, q) == IF Rejects(p) THEN p ELSE p \o q
VisitSeq(elts, i) ==
    IF i > Len(elts) THEN <<>>
    ELSE Then(Visit(elts[i]), VisitSeq(elts, i + 1))
VisitItems(keys, values, i) ==
    IF i > Len(keys) \/ i > Len(values) THEN <<>>
    ELSE IF keys[i] = NoneNode \/ values[i] = NoneNode
    THEN VisitItems(keys, values, i + 1)
    ELSE Then(Then(Visit(keys[i]), Visit(values[i])),
              VisitItems(keys, values, i + 1))
Visit(node) ==
    CASE node.k = "Expression" -> Visit(node.body)
      [] node.k = "Constant" -> <<>>
      [] node.k = "Name" -> <<<<"name", node.id>>>>
      [] node.k = "Attribute" -> Visit(node.value)
      [] node.k = "Subscript" ->
            Then(Visit(node.value),
                 IF node.slice.k = "Slice" THEN <<<<"reject", "Slice">>>>
                 ELSE Visit(node.slice))
      [] node.k \in {"Tuple", "List"} -> VisitSeq(node.elts, 1)
      [] node.k = "Dict" -> VisitItems(node.keys, node.values, 1)
      [] OTHER -> <<<<"reject", node.k>>>>

\* The lookups of names and the rejection, as the call performed them.
Seen(log) == SelectSeq(log, LAMBDA e : e[1] \in {"name", "reject"})

IsPrefix(p, q) == Len(p) <= Len(q) /\ SubSeq(q, 1, Len(p)) = p

\* C2 (as amended): a forbidden construct is rejected when the evaluator
\* reaches it, not before: the names that precede it in evaluation order are
\* looked up first, in that order, and nothing is looked up after the
\* rejection.  The failure is the rejection exactly when every earlier step
\* succeeds; otherwise it is the failure of the first failing step.
C2_RejectedWhenReached ==
    Called =>
        LET seen == Seen(evRes.log)
            plan == Visit(evNode)
        IN  /\ IsPrefix(seen, plan)
            /\ \A i \in 1..Len(evRes.log) :
                  evRes.log[i][1] = "reject" => i = Len(evRes.log)
            /\ IsRejected(evRes) <=> (Rejects(evRes.log) /\ seen = plan)
            /\ ~Failed(evRes) => (seen = plan /\ ~Rejects(plan))
            /\ evRes.exc.type = "NameError" =>
                  /\ seen # <<>>
                  /\ seen[Len(seen)][1] = "name"
                  /\ seen[Len(seen)][2] \notin DOMAIN evData
                  /\ \A i \in 1..(Len(seen) - 1) : seen[i][2] \in DOMAIN evData

\* C2's case: a forbidden node is rejected after a lookup that succeeded.
C2_Witness ==
    /\ Called
    /\ IsRejected(evRes)
    /\ Len(evRes.log) > 1
    /\ evRes.log[1][1] = "name"

\* C2 as stated: no lookup, attribute read or subscript access precedes the
\* rejection, and an expression with a forbidden node never fails with a
\* missing name, attribute, key or index.
C2_RejectedBeforeEvaluation ==
    Called =>
        /\ IsRejected(evRes) => Len(evRes.log) = 1
        /\ ContainsForbidden(evNode) =>
              evRes.exc.type \notin
                 {"NameError", "AttributeError", "KeyError", "IndexError"}

SliceSubscript(node) ==
    node.k = "Subscript" /\ node.slice.k = "Slice"

\* C3 (as amended): base[lo:hi] never evaluates to a value.  When the base
\* evaluates, the call fails with "slices are not allowed"; when the base
\* fails, the call fails with the base's failure.
C3_SliceNeverAccepted ==
    (Called /\ SliceSubscript(evNode)) =>
        LET base == safe_eval_tree(evNode.value, evData) IN
        /\ Failed(evRes)
        /\ IF Failed(base) THEN SameExc(evRes.exc, base.exc)
           ELSE /\ evRes.exc.type = "TypeError"
                /\ evRes.exc.msg = <<"slices are not allowed">>

\* C3's case: a slice of a list held by the context is refused.
C3_Witness ==
    /\ Called
    /\ SliceSubscript(evNode)
    /\ evNode.value.k = "Name"
    /\ evNode.value.id \in DOMAIN evData
    /\ evData[evNode.value.id].t = "list"
    /\ IsRejected(evRes)

\* C3 as stated: base[lo:hi] fails with the rejection in every context.
C3_SliceAlwaysRejected ==
    (Called /\ SliceSubscript(evNode)) => IsRejected(evRes)

-----------------------------------------------------------------------------
\* Rendering: the claims about _render_text.  Placeholders are described
\* here from the template's characters alone, apart from the scanner.

\* t[i..j] is a placeholder: "{", one or more characters that are not
\* braces, "}".
IsPlaceholder(t, i, j) ==
    /\ 1 <= i /\ i + 1 < j /\ j <= Len(t)
    /\ t[i] = "{" /\ t[j] = "}"
    /\ \A k \in (i + 1)..(j - 1) : t[k] \notin {"{", "}"}

Opens(t, i) ==
    /\ i \in 1..Len(t)
    /\ t[i] = "{"
    /\ \E j \in (i + 2)..Len(t) : IsPlaceholder(t, i, j)
CloseOf(t, i) == CHOOSE j \in (i + 2)..Len(t) : IsPlaceholder(t, i, j)
PlaceholderStarts(t) == {i \in 1..Len(t) : Opens(t, i)}
Interior(t, i) == SubSeq(t, i + 1, CloseOf(t, i) - 1)

Evals(tr) == SelectSeq(tr, LAMBDA e : e.op = "eval")
Gets(tr) == SelectSeq(tr, LAMBDA e : e.op = "get")
Last(tr) == tr[Len(tr)]

\* The text the trace records as substituted for the placeholder at i.
TextAt(tr, i) ==
    IF \E n \in 1..Len(tr) : tr[n].op = "return" /\ tr[n].at = i
    THEN LET n == CHOOSE n \in 1..Len(tr) :
                      tr[n].op = "return" /\ tr[n].at = i
         IN  tr[n].key
    ELSE <<"missing">>

\* t[k..last] with every placeholder replaced by its substituted text and
\* every other character kept.
RECURSIVE Expected(_, _, _, _)
Expected(t, tr, k, last) ==
    IF k > last THEN <<>>
    ELSE IF Opens(t, k)
         THEN TextAt(tr, k) \o Expected(t, tr, CloseOf(t, k) + 1, last)
         ELSE <<t[k]>> \o Expected(t, tr, k + 1, last)

\* C4: when a placeholder's expression evaluates to a string, the
\* translator is asked for exactly that string as the key; what it gives is
\* the text substituted, and when it has nothing for the key the render
\* fails there with the key-not-found error naming the key.
C4_StringIsTranslationKey ==
    \A n \in 1..Len(trace) :
        trace[n].op = "eval" =>
            LET raw == safe_eval_expr(trace[n].key, data) IN
            (~Failed(raw) /\ raw.val.t = "str") =>
                LET translated == Get(i18n, raw.val.v, data) IN
                /\ n < Len(trace)
                /\ trace[n + 1] = Got(trace[n].at, raw.val.v)
                /\ IF translated = NoneV
                   THEN /\ n + 1 = Len(trace)
                        /\ pc = "raised"
                        /\ result.status = "raised"
                        /\ result.exc.type = "KeyError"
                        /\ result.exc.msg =
                               <<"Translation key not found", raw.val.v>>
                   ELSE /\ n + 2 <= Len(trace)
                        /\ trace[n + 2] = Gave(trace[n].at, translated.v)

\* C4's case: "{s}" with s = "k1" is rendered as the translation of k1.
C4_Witness ==
    /\ pc = "returned"
    /\ template = <<"{", "s", "}">>
    /\ calls # <<>>
    /\ calls[1].key = K1
    /\ result.val = Get(i18n, K1, data).v

\* C5: a render that returns has called the translator once for each
\* placeholder whose value is a string and not at all for any other
\* placeholder, whose value is substituted as str(value).
C5_OneCallPerStringPlaceholder ==
    pc = "returned" =>
        LET starts == PlaceholderStarts(template)
            ValueAt(i) == safe_eval_expr(Strip(Interior(template, i)), data).val
            strs == {i \in starts : ValueAt(i).t = "str"}
        IN  /\ \A i \in starts :
                   LET g == {n \in 1..Len(trace) :
                                 trace[n].op = "get" /\ trace[n].at = i}
                   IN  IF i \in strs
                       THEN /\ Cardinality(g) = 1
                            /\ \A n \in g : trace[n].key = ValueAt(i).v
                       ELSE /\ g = {}
                            /\ TextAt(trace, i) = PyStr(ValueAt(i))
            /\ Len(calls) = Cardinality(strs)
            /\ \A c \in 1..Len(calls) :
                   \E i \in strs : calls[c].key = ValueAt(i).v

\* C5's case: "{s}{n}" with s = 5 and n = "k1": one call, for k1, and
\* "5" in the place of {s}.
C5_Witness ==
    /\ pc = "returned"
    /\ Cardinality(PlaceholderStarts(template)) = 2
    /\ Len(calls) = 1
    /\ TextAt(trace, 1) = <<"5">>

\* C6: a placeholder that fails is the last thing the render does: the
\* call raises, returns no text, and no placeholder to its right is
\* evaluated or translated.
C6_FailureAbortsRender ==
    /\ \A n \in 1..Len(trace) :
           /\ (trace[n].op = "eval"
                   /\ Failed(safe_eval_expr(trace[n].key, data)))
                  => (n = Len(trace) /\ pc = "raised")
           /\ (trace[n].op = "get" /\ Get(i18n, trace[n].key, data) = NoneV)
                  => (n = Len(trace) /\ pc = "raised")
    /\ pc = "raised" =>
           /\ result.status = "raised"
           /\ result.val = <<>>
           /\ out = <<>>
           /\ \A n \in 1..Len(trace) : trace[n].at <= Last(trace).at
           /\ ~ENABLED SubMatch
           /\ ~ENABLED SubEnd

\* C6's case: the render raised at a placeholder with another one to its
\* right.
C6_Witness ==
    /\ pc = "raised"
    /\ trace # <<>>
    /\ \E i \in PlaceholderStarts(template) : i > Last(trace).at

Rank(op) == CASE op = "eval" -> 1 [] op = "get" -> 2 [] op = "return" -> 3

\* C7: placeholders are evaluated, translated and substituted one after
\* the other from left to right, the translator calls are made in that
\* order, and substituted text is never scanned: only the template's own
\* placeholders are evaluated, once each, and a translation that looks
\* like a placeholder is in the output as it is.
C7_DocumentOrderNoRescan ==
    /\ trace # <<>> => trace[1].op = "eval"
    /\ \A n \in 1..(Len(trace) - 1) :
           \/ /\ trace[n].at = trace[n + 1].at
              /\ Rank(trace[n].op) < Rank(trace[n + 1].op)
           \/ /\ trace[n].at < trace[n + 1].at
              /\ trace[n].op = "return"
              /\ trace[n + 1].op = "eval"
    /\ Len(calls) = Len(Gets(trace))
    /\ \A c \in 1..Len(calls) : calls[c].key = Gets(trace)[c].key
    /\ \A n \in 1..Len(trace) : Opens(template, trace[n].at)
    /\ pc = "returned" =>
           /\ Len(Evals(trace)) = Cardinality(PlaceholderStarts(template))
           /\ out = Expected(template, trace, 1, Len(template))

\* C7's case: "{s}{n}": two calls, for k1 then k2, and the translation of
\* k1, which is the text "{s}", in the output.
C7_Witness ==
    /\ pc = "returned"
    /\ Len(calls) = 2
    /\ calls[1].key = K1 /\ calls[2].key = K2
    /\ PlaceholderStarts(TextAt(trace, 1)) # {}
    /\ out = TextAt(trace, 1) \o TextAt(trace, 4)

\* C8: a render that fails in the parser or the evaluator raises the
\* invalid-expression error, which quotes the expression text and has the
\* underlying exception as its cause; a render that fails for a missing
\* translation raises the key-not-found error, which names the key.
C8_FailuresCarryExpressionAndCause ==
    (pc = "raised" /\ trace # <<>>) =>
        IF Last(trace).op = "eval"
        THEN LET raw == safe_eval_expr(Last(trace).key, data) IN
             /\ Last(trace).key = Strip(Interior(template, Last(trace).at))
             /\ Failed(raw)
             /\ result.exc.type = "ValueError"
             /\ result.exc.msg =
                    <<"Invalid format expression", Last(trace).key>>
             /\ SameExc(result.cause, raw.exc)
        ELSE /\ Last(trace).op = "get"
             /\ result.exc.type = "KeyError"
             /\ result.exc.msg =
                    <<"Translation key not found", Last(trace).key>>
             /\ result.cause.type = "None"

\* C8's case: "{-s}" is refused by the evaluator and the render raises
\* with that refusal as the cause.
C8_Witness ==
    /\ pc = "raised"
    /\ result.exc.type = "ValueError"
    /\ result.exc.msg[2] = <<"-", "s">>
    /\ result.cause.type = "TypeError"

C10_ScannerFindsExactlyPlaceholders ==
    (pc \in {"sub", "returned"} \/ (pc = "raised" /\ trace # <<>>)) =>
        LET ev == Evals(trace)
            passed == IF pc = "raised" THEN Last(trace).at ELSE pos - 1
        IN  /\ {ev[n].at : n \in 1..Len(ev)} =
                   {i \in PlaceholderStarts(template) : i <= passed}
            /\ \A n \in 1..(Len(ev) - 1) :
                   /\ Opens(template, ev[n].at)
                   /\ CloseOf(template, ev[n].at) < ev[n + 1].at
            /\ \A n \in 1..Len(ev) :
                   /\ Opens(template, ev[n].at)
                   /\ \A k \in 1..Len(ev[n].key) :
                          ev[n].key[k] \notin {"{", "}"}
                   /\ LET i == ev[n].at
                          j == CloseOf(template, i)
                      IN  \E a \in (i + 1)..j, b \in i..(j - 1) :
                              /\ ev[n].key = SubSeq(template, a, b)
                              /\ \A k \in ((i + 1)..(a - 1)) \cup ((b + 1)..(j - 1)) :
                                     template[k] = " "
                              /\ (a <= b => template[a] # " " /\ template[b] # " ")

\* C10's case: in "{{s}}" the inner "{s}" alone was taken.
C10_Witness ==
    /\ pc = "returned"
    /\ template = <<"{", "{", "s", "}", "}">>
    /\ Len(Evals(trace)) = 1
    /\ trace[1].at = 2
    /\ trace[1].key = <<"s">>

-----------------------------------------------------------------------------
(* Composite literals in placeholders, checked under SpecLit *)

RECURSIVE HasMapping(_)
HasMapping(node) ==
    CASE node.k = "Dict" -> TRUE
      [] node.k \in {"List", "Tuple"} ->
            \E i \in 1..Len(node.elts) : HasMapping(node.elts[i])
      [] OTHER -> FALSE

\* The literals whose text is the template's one placeholder.
LiteralsOfTemplate == {l \in Literals : PlaceholderOf(l) = template}

\* C11: a render, with a translator supplied, of a placeholder whose
\* expression is a list, a tuple or a mapping of literals returns the
\* str() of that value and does not call the translator.
C11_CompositeLiteralRendered ==
    (pc \in {"returned", "raised"} /\ i18n.t # "NoneType") =>
        \A l \in LiteralsOfTemplate :
            /\ pc = "returned"
            /\ result.val = PyStr(safe_eval_tree(l, data).val)
            /\ calls = <<>>

\* What the code does for the literals without a mapping in them: C11's
\* statement holds for lists and tuples.
C11_ListsAndTuplesRendered ==
    (pc \in {"returned", "raised"} /\ i18n.t # "NoneType") =>
        \A l \in LiteralsOfTemplate :
            ~HasMapping(l) =>
                /\ pc = "returned"
                /\ result.val = PyStr(safe_eval_tree(l, data).val)
                /\ calls = <<>>

\* What the code does for a mapping: the braces of the literal are taken
\* for placeholder braces.  The render fails on the text between the
\* innermost braces, or returns the template itself when no brace pair
\* of it holds text without braces.
C11_MappingNeverRendered ==
    (pc \in {"returned", "raised"} /\ i18n.t # "NoneType") =>
        \A l \in LiteralsOfTemplate :
            HasMapping(l) =>
                /\ calls = <<>>
                /\ IF PlaceholderStarts(template) = {}
                   THEN pc = "returned" /\ result.val = template
                   ELSE /\ pc = "raised"
                        /\ result.exc.type = "ValueError"
                        /\ result.cause.type = "SyntaxError"

-----------------------------------------------------------------------------
(* The calls of the two widgets, checked under SpecCalls *)

\* C12: every translator call, of I18NFormatGetter and of I18NFormat, is
\* given the whole data of the render call as params: the same names with
\* the same values, whatever names the placeholder's expression used.
C12_ParamsAreFullContext ==
    \A c \in 1..Len(calls) : calls[c].params = data

\* C12's case: the expression used one name, the translator got both.
C12_Witness ==
    /\ pc = "returned"
    /\ template = <<"{", "n", "}">>
    /\ Len(calls) = 1
    /\ {<<"s">>, <<"n">>} \subseteq DOMAIN calls[1].params

\* C13: a finished call of I18NFormat that had a translator has scanned
\* and evaluated nothing and has made one translator call, with the
\* widget's key as it is; it has returned the translation as it is, or has
\* raised the key-not-found error when the translator gave None.
C13_RenderKeyIsOneLookup ==
    (pc \in {"key_returned", "key_raised"} /\ i18n.t # "NoneType") =>
        /\ trace = <<>>
        /\ calls = <<[key |-> self_key, params |-> data]>>
        /\ IF Get(i18n, self_key, data) = NoneV
           THEN /\ pc = "key_raised"
                /\ result.exc.type = "KeyError"
                /\ result.exc.msg = <<"Translation key not found", self_key>>
                /\ result.val = <<>>
           ELSE /\ pc = "key_returned"
                /\ result = Returned(Get(i18n, self_key, data).v)

\* C13's case: the translation of k1 is the text "{s}" and is returned so,
\* in a context that has a value for s.
C13_Witness ==
    /\ pc = "key_returned"
    /\ self_key = K1
    /\ <<"s">> \in DOMAIN data
    /\ result.val = <<"{", "s", "}">>

\* C14: a call with the arguments of the call before it has the outcome of
\* the call before it: the same text or the same failure, after the same
\* translator calls.
C14_SameArgumentsSameOutcome ==
    (Finished /\ Len(prev) = 1) =>
        ((prev[1].data = data /\ prev[1].i18n = i18n) =>
            /\ prev[1].result = result
            /\ prev[1].calls = calls)

\* C14's case: two renders in a row with the same arguments, both with a
\* translator call.
C14_Witness ==
    /\ pc = "returned"
    /\ Len(prev) = 1
    /\ prev[1].data = data /\ prev[1].i18n = i18n
    /\ calls # <<>>
    /\ prev[1].result.val = result.val

\* C15: no step of a call changes the data it was given, and no step at
\* all changes the widget's template or key: a call that has returned or
\* raised leaves the names and values it was entered with.
C15_ContextAndWidgetUnchanged ==
    [][/\ template' = template
       /\ self_key' = self_key
       /\ (pc # "idle" /\ pc' # "idle") => data' = data]_vars

\* C15's case: a call that evaluated a placeholder, asked the translator
\* and failed, with its data still the data it was entered with.
C15_Witness ==
    /\ pc = "raised"
    /\ Len(Evals(trace)) = 1
    /\ Len(calls) = 1
    /\ \E i \in 1..Len(RenderContexts) : data = RenderContexts[i]

-----------------------------------------------------------------------------
(* Calls side by side, checked under SpecConc *)

\* C16: whatever the other calls on the widget are doing, a call that has
\* returned or raised has the result and the translator calls of the same
\* call run alone, and every translator call it has made so far was given
\* its own data.
C16_CallsDoNotInterfere ==
    \A p \in 1..NCalls :
        /\ \A c \in 1..Len(proc[p].calls) :
              proc[p].calls[c].params = proc[p].data
        /\ proc[p].pc \in {"returned", "raised"} =>
              LET alone == RenderAlone(template, proc[p].data, proc[p].i18n)
              IN  /\ proc[p].result = alone.result
                  /\ proc[p].calls = alone.calls

\* C16's case: a call with two placeholders returned although another call,
\* with other data, made a translator call between its two matches and is
\* still under way.
C16_Witness ==
    /\ template = <<"{", "n", "}", "{", "n", "}">>
    /\ proc[1].pc = "returned" /\ Len(proc[1].calls) = 2
    /\ proc[2].pc = "sub" /\ Len(proc[2].calls) = 1
    /\ proc[1].data # proc[2].data

-----------------------------------------------------------------------------
(* The dialog and the shutdown, checked under SpecBot *)

DefaultStates == {"main", "wrong_button", "right_button"}

\* What one update may do to the dialog of a chat.
Allowed(before, after) ==
    LET s == StateOf(before.stack)
        t == StateOf(after.stack)
    IN  \/ after.last = "start_command" /\ after.stack = <<"main">>
        \/ after.last = "on_select_wrong_button"
              /\ s = "main" /\ t = "wrong_button"
        \/ after.last = "on_select_right_button"
              /\ s \in {"main", "wrong_button"} /\ t = "right_button"
        \/ after.last = "unhandled" /\ after.stack = before.stack

\* C17: a chat has no dialog or a stack of one window, in main,
\* wrong_button or right_button.  /start puts main alone on the stack from
\* anywhere; the wrong button is handled in main only and leads to
\* wrong_button; the right button is handled in main and in wrong_button
\* and leads to right_button; any other click leaves the stack as it is.
C17_DialogTransitions ==
    [][\A c \in Chats :
          /\ dialogs'[c].stack = <<>>
                \/ /\ Len(dialogs'[c].stack) = 1
                   /\ StateOf(dialogs'[c].stack) \in DefaultStates
          /\ dialogs'[c] # dialogs[c] => Allowed(dialogs[c], dialogs'[c])]_vars

\* C17's case: a chat went on to right_button and its clicks are no longer
\* handled, while another chat is in wrong_button.
C17_Witness ==
    /\ dialogs[1] = [stack |-> <<"right_button">>, last |-> "unhandled"]
    /\ dialogs[2] = [stack |-> <<"wrong_button">>,
                     last |-> "on_select_wrong_button"]

\* C18: when main() has ended the application has been closed and the
\* container has been closed by the hook of the shutdown event.
C18_ContainerClosedAtExit ==
    app.pc = "exited" => app.closed /\ app.container_closed

=============================================================================
